---- MODULE Spec2Model ----
(***************************************************************************)
(* TrendBot (main_standalone.py): the SQLite-backed referral ledger        *)
(* (class Database) and the command handlers of class TrendBot that use    *)
(* it.                                                                     *)
(*                                                                         *)
(* The specifications share the tables:                                    *)
(*   Spec       the bot process: handler coroutines on one event loop;     *)
(*              a handler runs without interruption between two awaits,    *)
(*              every Database call in it is synchronous.                  *)
(*   StoreSpec  the Database API called by concurrent clients of the same  *)
(*              database file, one SQL statement per step, with SQLite's   *)
(*              transactions (implicit BEGIN before DML, commit(), one     *)
(*              writer at a time).                                         *)
(*   ApiSpec    the Database methods called one after another with any     *)
(*              argument objects, while the clock moves.                   *)
(*   BoardSpec  the ledger driven as the test script drives it, with       *)
(*              get_leaderboard.                                           *)
(*   PostSpec   post_to_channel, entered by the scheduler's job and by     *)
(*              /post; the transport returns a message or raises.          *)
(*              PostLiveSpec adds the fairness of the event loop.          *)
(*   CatalogSpec  save_offer, get_offers and generate_post called one      *)
(*              after another with any Offer objects, while the clock      *)
(*              moves.                                                     *)
(* Money (REAL columns) is counted in whole dollars, an offer's commission *)
(* in cents.                                                               *)
(***************************************************************************)
EXTENDS Integers, Sequences, FiniteSets, TLC

\* ---- bounds ----
MaxUsers == 2
NumCodes == 2
MaxTasks == 2
MaxClients == 2
MaxReferrals == 2
MaxStoreReferrals == 3
MaxClock == 1
MaxCycles == 2
MaxAttempts == 2
\* generate_offers(20) and get_offers(limit=10) / new_offers[:10], in proportion
GenerateCount == 3
PoolSize == 2
NumTitles == 1
MaxOffers == 3

UserIds == 1..MaxUsers
Codes == 1..NumCodes
Tasks == 1..MaxTasks
Clients == 1..MaxClients
Cycles == 1..MaxCycles
Titles == 1..NumTitles

\* ---- values of the program ----
NoCode == 0
NoName == "None"
NoId == 0
NoCategory == "None"
NoCommission == -1
NoGravity == -1
CHANNEL == "TELEGRAM_CHANNEL_ID"
REWARD_AMOUNT == 5
Rewards == {2, REWARD_AMOUNT}

\* users, referrals: the committed tables (rows in rowid order)
\* now: datetime.now();  tk: the handler coroutines;  cl, tx: the Database clients and
\* their open transactions;  credits: per referral code, how many save_referral calls
\* that named it while it had an owner have returned, and the sum of their rewards
VARIABLES users, referrals, now, tk, cl, tx, credits

\* offers, posts: the committed offers and posts tables (rows in rowid order)
\* channel: the messages the channel shows, a message's id is its position
\* pb: the publication cycles (post_to_channel and the trigger that called it)
\* stats: self.stats;  attempts: how many times post_to_channel was entered
VARIABLES offers, posts, channel, pb, stats, attempts

\* board: the list the get_leaderboard call just made returned, and its limit
VARIABLES board

\* listing: the list the get_offers call just made returned, with its arguments
\* content: the offer the generate_post call just made was given, and what came of it
VARIABLES listing, content

pub == <<offers, posts, channel, pb, stats, attempts>>

cat == <<listing, content>>

vars == <<users, referrals, now, tk, cl, tx, credits, pub, board, cat>>

\* `x or ""`
OrEmpty(x) == IF x = NoName THEN "" ELSE x

\* dataclass User: counters default to 0, a missing referral_code is generated
NewUser(uid, un, fn, code, refby) ==
    [user_id |-> uid, username |-> un, first_name |-> fn,
     referral_code |-> code, referred_by |-> refby,
     referral_count |-> 0, total_earnings |-> 0, last_active |-> 0]

\* None where a User is expected: get_user found no row
NoUser == NewUser(0, "", "", NoCode, NoCode)

\* dataclass Referral
NewReferral(code, uid, amount, status) ==
    [referrer_code |-> code, referred_user_id |-> uid,
     reward_amount |-> amount, status |-> status]

\* ---- SQL statements, as functions of the table they run on ----

\* SELECT ... FROM users WHERE user_id = ? ; fetchone() : index of the row, 0 if none
SelectByUserId(us, uid) ==
    IF \E i \in DOMAIN us : us[i].user_id = uid
    THEN CHOOSE i \in DOMAIN us : us[i].user_id = uid
    ELSE 0

SelectByReferralCode(us, code) ==
    IF \E i \in DOMAIN us : us[i].referral_code = code
    THEN CHOOSE i \in DOMAIN us : us[i].referral_code = code
    ELSE 0

GetUser(us, uid) ==
    IF SelectByUserId(us, uid) = 0 THEN NoUser ELSE us[SelectByUserId(us, uid)]

GetUserByReferralCode(us, code) ==
    IF SelectByReferralCode(us, code) = 0 THEN NoUser
    ELSE us[SelectByReferralCode(us, code)]

UsersConstraintUserIdOnly(us, u) == \A i \in DOMAIN us : us[i].user_id # u.user_id

\* user_id INTEGER UNIQUE NOT NULL, referral_code TEXT UNIQUE NOT NULL
UsersConstraintOk(us, u) ==
    /\ \A i \in DOMAIN us : us[i].user_id # u.user_id
    /\ \A i \in DOMAIN us : us[i].referral_code # u.referral_code

InsertUserReferred(us, u, t) ==
    Append(us, [user_id |-> u.user_id, username |-> u.username,
                first_name |-> u.first_name, referral_code |-> u.referral_code,
                referred_by |-> u.referral_code, referral_count |-> 0,
                total_earnings |-> 0, last_active |-> t])

\* INSERT INTO users (user_id, username, first_name, referral_code, referred_by):
\* the counters take DEFAULT 0, last_active DEFAULT CURRENT_TIMESTAMP
InsertUser(us, u, t) ==
    Append(us, [user_id |-> u.user_id, username |-> u.username,
                first_name |-> u.first_name, referral_code |-> u.referral_code,
                referred_by |-> u.referred_by, referral_count |-> 0,
                total_earnings |-> 0, last_active |-> t])

UpdateUserOverwrite(us, u, t) ==
    [i \in DOMAIN us |->
        IF us[i].user_id = u.user_id
        THEN [u EXCEPT !.last_active = t]
        ELSE us[i]]

\* UPDATE users SET username = ?, first_name = ?, last_active = ? WHERE user_id = ?
UpdateUser(us, u, t) ==
    [i \in DOMAIN us |->
        IF us[i].user_id = u.user_id
        THEN [us[i] EXCEPT !.username = u.username, !.first_name = u.first_name,
                           !.last_active = t]
        ELSE us[i]]

\* INSERT INTO referrals (referrer_code, referred_user_id, reward_amount, status)
InsertReferral(rs, r) == Append(rs, r)

UpdateReferrerCountOnly(us, code, amount) ==
    [i \in DOMAIN us |->
        IF us[i].referral_code = code
        THEN [us[i] EXCEPT !.referral_count = @ + 1]
        ELSE us[i]]

\* UPDATE users SET referral_count = referral_count + 1,
\*                  total_earnings = total_earnings + ? WHERE referral_code = ?
UpdateReferrer(us, code, amount) ==
    [i \in DOMAIN us |->
        IF us[i].referral_code = code
        THEN [us[i] EXCEPT !.referral_count = @ + 1, !.total_earnings = @ + amount]
        ELSE us[i]]

\* ---- Database methods run to completion (one connection, one commit) ----

\* save_user: IntegrityError (ok = FALSE) leaves the table as it was
SaveUser(us, u, t) ==
    IF SelectByUserId(us, u.user_id) # 0
    THEN [ok |-> TRUE, users |-> UpdateUser(us, u, t)]
    ELSE IF UsersConstraintOk(us, u)
         THEN [ok |-> TRUE, users |-> InsertUser(us, u, t)]
         ELSE [ok |-> FALSE, users |-> us]

SaveReferral(us, rs, r) ==
    [users |-> UpdateReferrer(us, r.referrer_code, r.reward_amount),
     referrals |-> InsertReferral(rs, r)]

\* ---- TrendBot handlers (specification Spec) ----

\* update.effective_user: the Telegram account behind a platform id
\* (username and first_name are optional in a Telegram profile)
TgUsername(uid) == IF uid % 2 = 0 THEN "bob" ELSE NoName
TgFirstName(uid) == IF uid % 2 = 1 THEN "Al" ELSE NoName

\* context.args[0] is free text from the deep link: a code the generator can issue, or
\* text it never issues
ClaimedCodes == Codes \cup {NumCodes + 1}

\* the Database calls of start_command / referral_command that can raise sqlite3.Error
FailPoints == {"none", "get_user", "save_user", "get_user_by_referral_code",
               "save_referral", "get_referrals"}

TaskIdle == [pc |-> "idle", cmd |-> "none", uid |-> 0, code |-> NoCode,
             referrer |-> 0, refcount |-> 0, reported |-> 0, notified |-> "none",
             welcome |-> "none"]

\* an exception leaves the handler; what was committed before it stays
Raised(us, rs) ==
    [users |-> us, referrals |-> rs, pc |-> "idle", referrer |-> 0, refcount |-> 0,
     welcome |-> "none"]

Replying(us, rs, welcome) ==
    [users |-> us, referrals |-> rs, pc |-> "reply", referrer |-> 0, refcount |-> 0,
     welcome |-> welcome]

IsNewAlways(existing) == TRUE

\* `if not existing_user:`
IsNew(existing) == existing = NoUser

\* `if referral_code:`
HasCode(code) == code # NoCode

ReferrerFoundAlways(referrer) == TRUE

\* `if referrer:`
ReferrerFound(referrer) == referrer # NoUser

TotalReferralsStale(refcount) == refcount

\* f"Total referrals: {referrer.referral_count + 1}", formatted when send_message is
\* called, from the referrer object read before save_referral
TotalReferrals(refcount) == refcount + 1

\* welcome_type = "new_with_referral" if referral_code else "new"
WelcomeType(code) == IF HasCode(code) THEN "new_with_referral" ELSE "new"

\* start_command from its entry to its first await (or to the exception that ends it)
StartDb(us, rs, t, uid, code, fresh, fail) ==
    LET existing == GetUser(us, uid) IN
    IF fail = "get_user" THEN Raised(us, rs)
    ELSE IF IsNew(existing)
    THEN LET new_user == NewUser(uid, OrEmpty(TgUsername(uid)), OrEmpty(TgFirstName(uid)),
                                 fresh, code)
             su == SaveUser(us, new_user, t)
         IN  IF fail = "save_user" \/ ~su.ok THEN Raised(us, rs)
             ELSE IF HasCode(code)
             THEN IF fail = "get_user_by_referral_code" THEN Raised(su.users, rs)
                  ELSE LET referrer == GetUserByReferralCode(su.users, code) IN
                       IF ReferrerFound(referrer)
                       THEN IF fail = "save_referral" THEN Raised(su.users, rs)
                            ELSE LET sr == SaveReferral(su.users, rs,
                                             NewReferral(code, uid, REWARD_AMOUNT, "confirmed"))
                                 IN  [users |-> sr.users, referrals |-> sr.referrals,
                                      pc |-> "notify",
                                      referrer |-> referrer.user_id,
                                      refcount |-> referrer.referral_count,
                                      welcome |-> "none"]
                       ELSE Replying(su.users, rs, WelcomeType(code))
             ELSE Replying(su.users, rs, WelcomeType(code))
    ELSE LET su == SaveUser(us, existing, t)
         IN  IF fail = "save_user" THEN Raised(us, rs)
             ELSE Replying(su.users, rs, "returning")

\* /start [code] arrives: everything up to the notification or the reply
StartBegin(t) ==
    /\ tk[t].pc = "idle"
    /\ \E uid \in UserIds, code \in ClaimedCodes \cup {NoCode}, fresh \in Codes,
          fail \in FailPoints \ {"get_referrals"} :
        LET r == StartDb(users, referrals, now, uid, code, fresh, fail)
        IN  /\ users' = r.users
            /\ referrals' = r.referrals
            /\ credits' = IF r.pc = "notify"
                          THEN [credits EXCEPT ![code] =
                                  [n |-> @.n + 1, sum |-> @.sum + REWARD_AMOUNT]]
                          ELSE credits
            /\ tk' = [tk EXCEPT ![t] =
                        IF r.pc = "idle" THEN TaskIdle
                        ELSE [pc |-> r.pc, cmd |-> "start", uid |-> uid, code |-> code,
                              referrer |-> r.referrer, refcount |-> r.refcount,
                              reported |-> IF r.pc = "notify"
                                           THEN TotalReferrals(r.refcount) ELSE 0,
                              notified |-> "none", welcome |-> r.welcome]]
    /\ UNCHANGED <<pub, cat, board, now, cl, tx>>

StartNotifyPropagates(t) ==
    /\ tk[t].pc = "notify"
    /\ \E delivered \in BOOLEAN :
        tk' = [tk EXCEPT ![t] =
                 IF delivered
                 THEN [@ EXCEPT !.pc = "reply", !.notified = "sent",
                                !.welcome = WelcomeType(tk[t].code)]
                 ELSE TaskIdle]
    /\ UNCHANGED <<pub, cat, board, users, referrals, now, cl, tx, credits>>

\* await context.bot.send_message(chat_id=referrer.user_id, ...) inside try/except: pass;
\* delivered or not, the handler goes on to choose the welcome
StartNotify(t) ==
    /\ tk[t].pc = "notify"
    /\ \E delivered \in BOOLEAN :
        tk' = [tk EXCEPT ![t].pc = "reply",
                         ![t].notified = IF delivered THEN "sent" ELSE "failed",
                         ![t].welcome = WelcomeType(tk[t].code)]
    /\ UNCHANGED <<pub, cat, board, users, referrals, now, cl, tx, credits>>

\* current_user = self.db.get_user(user.id); await update.message.reply_text(...):
\* sent or raised, the handler is over
StartReply(t) ==
    /\ tk[t].pc = "reply"
    /\ tk[t].cmd = "start"
    /\ tk' = [tk EXCEPT ![t] = TaskIdle]
    /\ UNCHANGED <<pub, cat, board, users, referrals, now, cl, tx, credits>>

\* referral_command from its entry to its await
ReferralDb(us, rs, t, uid, fresh, fail) ==
    LET db_user == GetUser(us, uid) IN
    IF fail = "get_user" THEN Raised(us, rs)
    ELSE IF db_user = NoUser
    THEN LET su == SaveUser(us, NewUser(uid, OrEmpty(TgUsername(uid)),
                                        OrEmpty(TgFirstName(uid)), fresh, NoCode), t)
         IN  IF fail = "save_user" \/ ~su.ok THEN Raised(us, rs)
             ELSE IF fail = "get_referrals" THEN Raised(su.users, rs)
             ELSE Replying(su.users, rs, "dashboard")
    ELSE IF fail = "get_referrals" THEN Raised(us, rs)
         ELSE Replying(us, rs, "dashboard")

ReferralBegin(t) ==
    /\ tk[t].pc = "idle"
    /\ \E uid \in UserIds, fresh \in Codes,
          fail \in {"none", "get_user", "save_user", "get_referrals"} :
        LET r == ReferralDb(users, referrals, now, uid, fresh, fail)
        IN  /\ users' = r.users
            /\ referrals' = r.referrals
            /\ tk' = [tk EXCEPT ![t] =
                        IF r.pc = "idle" THEN TaskIdle
                        ELSE [pc |-> r.pc, cmd |-> "referral", uid |-> uid,
                              code |-> NoCode, referrer |-> 0, refcount |-> 0,
                              reported |-> 0, notified |-> "none",
                              welcome |-> r.welcome]]
    /\ UNCHANGED <<pub, cat, board, now, cl, tx, credits>>

\* await update.message.reply_text(referral_message, ...)
ReferralReply(t) ==
    /\ tk[t].pc = "reply"
    /\ tk[t].cmd = "referral"
    /\ tk' = [tk EXCEPT ![t] = TaskIdle]
    /\ UNCHANGED <<pub, cat, board, users, referrals, now, cl, tx, credits>>

\* ---- Database clients (specification StoreSpec) ----

NoTx == [open |-> FALSE]
ClientIdle == [pc |-> "idle", op |-> "none", uid |-> 0, existing |-> 0]

\* the User objects a caller may pass to save_user (the counters of the object are
\* never written by save_user; an object read back from the store carries them)
UserObjects ==
    { [NewUser(uid, nm[1], nm[2], code, refby)
         EXCEPT !.referral_count = cnt, !.total_earnings = cnt * REWARD_AMOUNT] :
        uid \in UserIds, nm \in {<<"", "Al">>, <<"bob", "">>}, code \in Codes,
        refby \in Codes \cup {NoCode}, cnt \in {0, 1} }

\* the Referral objects a caller may pass to save_referral
ReferralObjects ==
    { NewReferral(code, uid, amount, "confirmed") :
        code \in Codes, uid \in UserIds, amount \in Rewards }

Last(q) == q[Len(q)]

CanWriteAlways(p) == TRUE

\* SQLite lets one connection at a time hold a write transaction
CanWrite(p) == \A q \in Clients \ {p} : ~tx[q].open

\* the ledger counts a returned save_referral whose code had an owner
Credit(cr, us, r) ==
    IF SelectByReferralCode(us, r.referrer_code) = 0 THEN cr
    ELSE [cr EXCEPT ![r.referrer_code] =
            [n |-> @.n + 1, sum |-> @.sum + r.reward_amount]]

\* save_user(user): connect, SELECT id FROM users WHERE user_id = ?
SaveUserSelect(p) ==
    /\ cl[p].pc = "idle"
    /\ \E uid \in UserIds :
        cl' = [cl EXCEPT ![p] = [pc |-> "su_write", op |-> "save_user", uid |-> uid,
                                 existing |-> SelectByUserId(users, uid)]]
    /\ UNCHANGED <<pub, cat, board, users, referrals, now, tk, tx, credits>>

\* save_user: the UPDATE or the INSERT, then commit() (a transaction of one statement);
\* an INSERT that breaks a UNIQUE constraint raises IntegrityError.
\* The fields of the caller's object other than user_id are first read here.
SaveUserWrite(p) ==
    /\ cl[p].pc = "su_write"
    /\ CanWrite(p)
    /\ \E code \in Codes :
        LET u == NewUser(cl[p].uid, OrEmpty(TgUsername(cl[p].uid)),
                         OrEmpty(TgFirstName(cl[p].uid)), code, NoCode)
        IN  users' = IF cl[p].existing # 0 THEN UpdateUser(users, u, now)
                     ELSE IF UsersConstraintOk(users, u) THEN InsertUser(users, u, now)
                     ELSE users
    /\ cl' = [cl EXCEPT ![p] = ClientIdle]
    /\ UNCHANGED <<pub, cat, board, referrals, now, tk, tx, credits>>

\* save_referral(referral): connect; the INSERT waits for the write lock
SaveReferralCall(p) ==
    /\ cl[p].pc = "idle"
    /\ Len(referrals) + Cardinality({q \in Clients : cl[q].op = "save_referral"})
         < MaxStoreReferrals
    /\ cl' = [cl EXCEPT ![p] = [pc |-> "sr_insert", op |-> "save_referral", uid |-> 0,
                                existing |-> 0]]
    /\ UNCHANGED <<pub, cat, board, users, referrals, now, tk, tx, credits>>

SaveReferralInsertAutocommit(p) ==
    /\ cl[p].pc = "sr_insert"
    /\ CanWrite(p)
    /\ \E r \in ReferralObjects :
        /\ referrals' = InsertReferral(referrals, r)
        /\ tx' = [tx EXCEPT ![p] = [open |-> TRUE, users |-> users,
                                    referrals |-> InsertReferral(referrals, r)]]
    /\ cl' = [cl EXCEPT ![p].pc = "sr_update"]
    /\ UNCHANGED <<pub, cat, board, users, now, tk, credits>>

\* save_referral: INSERT INTO referrals, first statement of the transaction
\* (the caller's object is first read here)
SaveReferralInsert(p) ==
    /\ cl[p].pc = "sr_insert"
    /\ CanWrite(p)
    /\ \E r \in ReferralObjects :
        tx' = [tx EXCEPT ![p] = [open |-> TRUE, users |-> users,
                                 referrals |-> InsertReferral(referrals, r)]]
    /\ cl' = [cl EXCEPT ![p].pc = "sr_update"]
    /\ UNCHANGED <<pub, cat, board, users, referrals, now, tk, credits>>

\* save_referral: UPDATE users ... WHERE referral_code = ?, same transaction
SaveReferralUpdate(p) ==
    /\ cl[p].pc = "sr_update"
    /\ tx' = [tx EXCEPT ![p].users =
                UpdateReferrer(@, Last(tx[p].referrals).referrer_code,
                               Last(tx[p].referrals).reward_amount)]
    /\ cl' = [cl EXCEPT ![p].pc = "commit"]
    /\ UNCHANGED <<pub, cat, board, users, referrals, now, tk, credits>>

\* save_referral: conn.commit(); conn.close(); return referral_id
Commit(p) ==
    /\ cl[p].pc = "commit"
    /\ users' = tx[p].users
    /\ referrals' = tx[p].referrals
    /\ tx' = [tx EXCEPT ![p] = NoTx]
    /\ credits' = Credit(credits, tx[p].users, Last(tx[p].referrals))
    /\ cl' = [cl EXCEPT ![p] = ClientIdle]
    /\ UNCHANGED <<pub, cat, board, now, tk>>

\* a statement or the commit raises sqlite3.Error (database is locked, disk I/O):
\* the method is left, the connection is dropped uncommitted and rolls back
Abort(p) ==
    /\ cl[p].pc # "idle"
    /\ tx' = [tx EXCEPT ![p] = NoTx]
    /\ cl' = [cl EXCEPT ![p] = ClientIdle]
    /\ UNCHANGED <<pub, cat, board, users, referrals, now, tk, credits>>

\* ---- get_leaderboard ----

\* WHERE referral_count > 0
Qualifies(u) == u.referral_count > 0

LeaderboardBeforeCountOnly(a, b) == a.referral_count >= b.referral_count

\* ORDER BY referral_count DESC, total_earnings DESC: row a may stand before row b
LeaderboardBefore(a, b) ==
    \/ a.referral_count > b.referral_count
    \/ a.referral_count = b.referral_count /\ a.total_earnings >= b.total_earnings

\* the orders in which the sort may return the rows S of the table (rows that tie on
\* both keys come in an order SQL does not fix)
RECURSIVE Ranked(_, _)
Ranked(us, S) ==
    IF S = {} THEN { << >> }
    ELSE UNION { { <<us[i]>> \o rest : rest \in Ranked(us, S \ {i}) } :
                 i \in {j \in S : \A k \in S : LeaderboardBefore(us[j], us[k])} }

\* LIMIT ? (a negative LIMIT is no limit in SQLite)
Limit(q, n) == IF n < 0 \/ n >= Len(q) THEN q ELSE SubSeq(q, 1, n)

\* the limits a caller passes: a count (leaderboard_command passes 10, the test 5)
Limits == 0..MaxUsers

\* the lists get_leaderboard(limit) may return
GetLeaderboard(us, limit) ==
    { Limit(q, limit) : q \in Ranked(us, {i \in DOMAIN us : Qualifies(us[i])}) }

NoBoard == [called |-> FALSE, limit |-> 0, rows |-> << >>]

\* ---- Database methods called one after another (specification ApiSpec) ----

\* db.save_user(user), any User object
CallSaveUser ==
    /\ \E u \in UserObjects : users' = SaveUser(users, u, now).users
    /\ UNCHANGED <<pub, cat, board, referrals, now, tk, cl, tx, credits>>

\* db.save_referral(referral), any Referral object
CallSaveReferral ==
    /\ Len(referrals) < MaxReferrals
    /\ \E r \in ReferralObjects :
        /\ users' = SaveReferral(users, referrals, r).users
        /\ referrals' = SaveReferral(users, referrals, r).referrals
        /\ credits' = Credit(credits, users, r)
    /\ board' = NoBoard
    /\ UNCHANGED <<pub, cat, now, tk, cl, tx>>

\* ---- the ledger as the test script drives it (specification BoardSpec) ----

\* db.save_user(User(user_id=..., username=..., first_name=...)): the object's code
\* is generated, the list returned by an earlier get_leaderboard is out of date
CallSaveNewUser ==
    /\ \E uid \in UserIds, code \in Codes :
        users' = SaveUser(users, NewUser(uid, OrEmpty(TgUsername(uid)),
                                         OrEmpty(TgFirstName(uid)), code, NoCode),
                          now).users
    /\ board' = NoBoard
    /\ UNCHANGED <<pub, cat, referrals, now, tk, cl, tx, credits>>

\* db.get_leaderboard(limit)
CallGetLeaderboard ==
    /\ \E limit \in Limits : \E rows \in GetLeaderboard(users, limit) :
        board' = [called |-> TRUE, limit |-> limit, rows |-> rows]
    /\ UNCHANGED <<pub, cat, users, referrals, now, tk, cl, tx, credits>>

\* datetime.now() / CURRENT_TIMESTAMP moves on
Tick ==
    /\ now < MaxClock
    /\ now' = now + 1
    /\ UNCHANGED <<pub, cat, board, users, referrals, tk, cl, tx, credits>>

\* ---- the catalog and the post log (tables offers, posts) ----

\* self.categories
Categories == {"make_money", "ai_tools", "crypto_airdrops", "newsletters", "gadgets"}

\* dataclass Offer without description, created_at and updated_at; a title is the number
\* of its template, an affiliate link the number in its path
NewOffer(title, category, commission, gravity, link, platform) ==
    [id |-> NoId, title |-> title, category |-> category, commission |-> commission,
     gravity |-> gravity, link |-> link, platform |-> platform]

NoOffer == NewOffer(0, NoCategory, NoCommission, NoGravity, 0, "")

SaveOfferDropped(os, o, t) == os

\* save_offer: INSERT INTO offers (title, description, category, commission, gravity,
\* affiliate_link, platform); the id is AUTOINCREMENT (no row is ever deleted: the
\* position), created_at CURRENT_TIMESTAMP
SaveOffer(os, o, t) ==
    Append(os, [id |-> Len(os) + 1, title |-> o.title, category |-> o.category,
                commission |-> o.commission, gravity |-> o.gravity, link |-> o.link,
                platform |-> o.platform, created_at |-> t])

\* for offer in new_offers: self.db.save_offer(offer)
RECURSIVE SaveOffers(_, _, _)
SaveOffers(os, new_offers, t) ==
    IF new_offers = << >> THEN os
    ELSE SaveOffers(SaveOffer(os, Head(new_offers), t), Tail(new_offers), t)

\* Offer(id=row[0], title=row[1], ...)
RowToOffer(row) ==
    [id |-> row.id, title |-> row.title, category |-> row.category,
     commission |-> row.commission, gravity |-> row.gravity, link |-> row.link,
     platform |-> row.platform]

\* `if category:` (None and the empty string select the statement without WHERE)
HasCategory(category) == category \notin {NoCategory, ""}

\* WHERE category = ?
Matching(os, category) ==
    IF HasCategory(category) THEN {i \in DOMAIN os : os[i].category = category}
    ELSE DOMAIN os

RecentFirstByRowid(os, S) ==
    IF S = {} THEN { << >> }
    ELSE { [k \in 1..Cardinality(S) |->
              RowToOffer(os[CHOOSE i \in S : Cardinality({j \in S : j < i}) = k - 1])] }

\* ORDER BY created_at DESC: the orders in which the rows S may be returned
RECURSIVE RecentFirst(_, _)
RecentFirst(os, S) ==
    IF S = {} THEN { << >> }
    ELSE UNION { { <<RowToOffer(os[i])>> \o rest : rest \in RecentFirst(os, S \ {i}) } :
                 i \in {j \in S : \A k \in S : os[j].created_at >= os[k].created_at} }

\* the lists get_offers(limit, category) may return
GetOffers(os, limit, category) ==
    { Limit(q, limit) : q \in RecentFirst(os, Matching(os, category)) }

\* offer_templates: title, category, commission_range (in cents), platform, gravity_range
OfferTemplates ==
    << [title |-> 1, category |-> "ai_tools", commission_range |-> <<2500, 9700>>,
        platform |-> "ClickBank", gravity_range |-> <<15, 85>>],
       [title |-> 2, category |-> "make_money", commission_range |-> <<4700, 19700>>,
        platform |-> "ClickBank", gravity_range |-> <<20, 75>>],
       [title |-> 3, category |-> "crypto_airdrops", commission_range |-> <<9700, 29700>>,
        platform |-> "ClickBank", gravity_range |-> <<25, 90>>],
       [title |-> 4, category |-> "gadgets", commission_range |-> <<1500, 4500>>,
        platform |-> "Digistore24", gravity_range |-> <<10, 60>>],
       [title |-> 5, category |-> "ai_tools", commission_range |-> <<6700, 16700>>,
        platform |-> "Digistore24", gravity_range |-> <<30, 80>>],
       [title |-> 6, category |-> "make_money", commission_range |-> <<2700, 8700>>,
        platform |-> "Digistore24", gravity_range |-> <<15, 70>>],
       [title |-> 7, category |-> "crypto_airdrops", commission_range |-> <<300, 700>>,
        platform |-> "SparkLoop", gravity_range |-> <<40, 95>>],
       [title |-> 8, category |-> "ai_tools", commission_range |-> <<200, 600>>,
        platform |-> "SparkLoop", gravity_range |-> <<35, 85>>],
       [title |-> 9, category |-> "make_money", commission_range |-> <<400, 800>>,
        platform |-> "SparkLoop", gravity_range |-> <<45, 90>>],
       [title |-> 10, category |-> "newsletters", commission_range |-> <<200, 500>>,
        platform |-> "beehiiv", gravity_range |-> <<50, 95>>],
       [title |-> 11, category |-> "gadgets", commission_range |-> <<150, 400>>,
        platform |-> "beehiiv", gravity_range |-> <<30, 80>>],
       [title |-> 12, category |-> "crypto_airdrops", commission_range |-> <<300, 600>>,
        platform |-> "beehiiv", gravity_range |-> <<40, 85>>] >>

\* random.uniform(a, b) returns a value from a to b: the two ends
Uniform(range) == {range[1], range[2]}

FromTemplateNegated(template, commission, gravity, i) ==
    NewOffer(template.title, template.category, 0 - commission, gravity, i,
             template.platform)

\* Offer(title=random.choice(title_variations), category=template["category"],
\* commission=commission, gravity=gravity, affiliate_link=.../{i+1}?ref=trendbot,
\* platform=template["platform"]), the id left None; the four variations of a title
\* are one title
FromTemplate(template, commission, gravity, i) ==
    NewOffer(template.title, template.category, commission, gravity, i,
             template.platform)

\* what the random calls of one round of the loop can return:
\* template = random.choice(offer_templates) among the first NumTitles templates,
\* commission and gravity uniform in the template's ranges
Draws ==
    UNION { { [template |-> OfferTemplates[t], commission |-> commission,
               gravity |-> gravity] :
                commission \in Uniform(OfferTemplates[t].commission_range),
                gravity \in Uniform(OfferTemplates[t].gravity_range) } :
            t \in Titles }

\* generate_offers(count)
GenerateOffers(count) ==
    { [i \in 1..count |->
          FromTemplate(draw[i].template, draw[i].commission, draw[i].gravity, i)] :
      draw \in [1..count -> Draws] }

\* the text generate_post returns, by the values it is formatted from; the emoji, hook,
\* call to action and urgency phrase are decoration
Text(title, commission, per_subscriber, platform, category, popularity, link) ==
    [error |-> "none", title |-> title, commission |-> commission,
     per_subscriber |-> per_subscriber, platform |-> platform, category |-> category,
     popularity |-> popularity, link |-> link]

NoText == Text(0, NoCommission, FALSE, "", NoCategory, NoGravity, 0)

\* generate_post raised
PostError(error) == [NoText EXCEPT !.error = error]

GeneratePostUnguarded(offer) ==
    IF offer.commission = NoCommission \/ offer.gravity = NoGravity
    THEN PostError("TypeError")
    ELSE IF offer.category = NoCategory THEN PostError("AttributeError")
    ELSE Text(offer.title, offer.commission, offer.platform \in {"SparkLoop", "beehiiv"},
              offer.platform, offer.category, offer.gravity, offer.link)

\* generate_post(offer): f"${offer.commission:.2f}" (TypeError when it is None),
\* offer.category.replace (AttributeError when it is None), the popularity line
\* `if offer.gravity:`
GeneratePost(offer) ==
    IF offer.commission = NoCommission THEN PostError("TypeError")
    ELSE IF offer.category = NoCategory THEN PostError("AttributeError")
    ELSE Text(offer.title, offer.commission, offer.platform \in {"SparkLoop", "beehiiv"},
              offer.platform, offer.category,
              IF offer.gravity \notin {NoGravity, 0} THEN offer.gravity ELSE NoGravity,
              offer.link)

NoListing == [called |-> FALSE, limit |-> 0, category |-> NoCategory, rows |-> << >>]

NoContent == [called |-> FALSE, offer |-> NoOffer, text |-> NoText]

\* ---- save_offer, get_offers, generate_post called one after another (CatalogSpec) ----

\* the Offer objects a caller builds: with and without gravity, of two categories, paid
\* per sale and per subscriber
OfferObjects ==
    { NewOffer(1, category, 0, gravity, 1, platform) :
        category \in {"ai_tools", "gadgets"}, gravity \in {NoGravity, 50},
        platform \in {"ClickBank", "SparkLoop"} }

\* Offer objects whose commission or category is None
UnfilledOffers ==
    { [o EXCEPT !.commission = NoCommission] : o \in OfferObjects }
    \cup { [o EXCEPT !.category = NoCategory] : o \in OfferObjects }

\* the limits a caller passes: a count (post_to_channel passes 10, start_bot 1)
OfferLimits == 0..MaxOffers

\* the categories a caller passes: none, the empty string, or a category
CategoryArgs == {NoCategory, "", "ai_tools", "gadgets", "newsletters"}

\* db.save_offer(offer), any Offer object
CallSaveOffer ==
    /\ Len(offers) < MaxOffers
    /\ \E o \in OfferObjects : offers' = SaveOffer(offers, o, now)
    /\ listing' = NoListing
    /\ content' = NoContent
    /\ UNCHANGED <<users, referrals, now, tk, cl, tx, credits, board,
                   posts, channel, pb, stats, attempts>>

\* db.get_offers(limit, category)
CallGetOffers ==
    /\ \E limit \in OfferLimits, category \in CategoryArgs :
        \E rows \in GetOffers(offers, limit, category) :
            listing' = [called |-> TRUE, limit |-> limit, category |-> category,
                        rows |-> rows]
    /\ content' = NoContent
    /\ UNCHANGED <<users, referrals, now, tk, cl, tx, credits, board, pub>>

\* content_generator.generate_post(offer), an Offer the caller built or read
CallGeneratePost ==
    /\ \E offer \in OfferObjects \cup UnfilledOffers
                    \cup {RowToOffer(offers[i]) : i \in DOMAIN offers} :
        content' = [called |-> TRUE, offer |-> offer, text |-> GeneratePost(offer)]
    /\ listing' = NoListing
    /\ UNCHANGED <<users, referrals, now, tk, cl, tx, credits, board, pub>>

\* log_post: INSERT INTO posts (offer_id, channel_id, message_id); commit
LogPost(ps, offer_id, channel_id, message_id) ==
    Append(ps, [offer_id |-> offer_id, channel_id |-> channel_id,
                message_id |-> message_id])

\* ---- post_to_channel and its triggers (specification PostSpec) ----

CycleIdle == [pc |-> "idle", trigger |-> "none", offer |-> NoOffer, text |-> NoText,
              replenished |-> FALSE, pool |-> 0, sends |-> 0, msg |-> 0,
              reply |-> "none"]

\* offer = random.choice(offers)
Choices(pool, os, replenished) ==
    { [ok |-> TRUE, offers |-> os, offer |-> pool[k], replenished |-> replenished,
       pool |-> Len(pool)] : k \in DOMAIN pool }

\* an exception before an offer is chosen (sqlite3.Error, IndexError of random.choice)
NotSelected(os, replenished) ==
    [ok |-> FALSE, offers |-> os, offer |-> NoOffer, replenished |-> replenished,
     pool |-> 0]

\* if not offers: generate 20, save them one by one (a save_offer that raises leaves the
\* earlier ones committed), offers = new_offers[:10]
Replenish(os, t) ==
    UNION { { NotSelected(SaveOffers(os, SubSeq(new_offers, 1, saved), t), TRUE) :
                saved \in 0..(GenerateCount - 1) }
            \cup
            ( IF Limit(new_offers, PoolSize) = << >>
              THEN { NotSelected(SaveOffers(os, new_offers, t), TRUE) }
              ELSE Choices(Limit(new_offers, PoolSize),
                           SaveOffers(os, new_offers, t), TRUE) ) :
            new_offers \in GenerateOffers(GenerateCount) }

\* post_to_channel, lines 939-949: what SELECTING can come to
Selecting(os, t) ==
    { NotSelected(os, FALSE) }
    \cup
    UNION { IF pool = << >> THEN Replenish(os, t) ELSE Choices(pool, os, FALSE) :
            pool \in GetOffers(os, PoolSize, NoCategory) }

\* the scheduler's job (one run at a time) or /post enters post_to_channel
Trigger(p) ==
    /\ pb[p].pc = "idle"
    /\ attempts < MaxAttempts
    /\ \E trigger \in {"job", "post"} :
        /\ trigger = "job" => \A q \in Cycles : pb[q].trigger # "job"
        /\ pb' = [pb EXCEPT ![p] = [CycleIdle EXCEPT !.pc = "selecting",
                                                     !.trigger = trigger]]
    /\ attempts' = attempts + 1
    /\ UNCHANGED <<users, referrals, now, tk, cl, tx, credits, board, cat,
                   offers, posts, channel, stats>>

\* get_offers, the replenishment of an empty catalog, random.choice
Select(p) ==
    /\ pb[p].pc = "selecting"
    /\ \E r \in Selecting(offers, now) :
        /\ offers' = r.offers
        /\ stats' = [stats EXCEPT !.offers_generated = @ + Len(r.offers) - Len(offers)]
        /\ pb' = [pb EXCEPT ![p] =
                    [@ EXCEPT !.pc = IF r.ok THEN "rendering" ELSE "failed",
                              !.offer = r.offer, !.replenished = r.replenished,
                              !.pool = r.pool]]
    /\ UNCHANGED <<users, referrals, now, tk, cl, tx, credits, board, cat,
                   posts, channel, attempts>>

\* post_content = self.content_generator.generate_post(offer)
Render(p) ==
    /\ pb[p].pc = "rendering"
    /\ LET text == GeneratePost(pb[p].offer)
       IN  pb' = [pb EXCEPT ![p] =
                    [@ EXCEPT !.pc = IF text.error = "none" THEN "publishing"
                                     ELSE "failed",
                              !.text = text]]
    /\ UNCHANGED <<users, referrals, now, tk, cl, tx, credits, board, cat,
                   offers, posts, channel, stats, attempts>>

\* what the transport and the store do to this attempt
PublishOutcomes == {"sent_and_logged", "send_raises", "log_post_raises"}

PublishingLogsUnsent(ch, ps, st, c, outcome) ==
    IF outcome = "sent_and_logged"
    THEN [channel |-> Append(ch, c.text),
          posts |-> LogPost(ps, c.offer.id, CHANNEL, Len(ch) + 1),
          stats |-> [st EXCEPT !.posts_sent = @ + 1],
          cycle |-> [c EXCEPT !.pc = "logged", !.sends = @ + 1, !.msg = Len(ch) + 1]]
    ELSE [channel |-> ch,
          posts |-> LogPost(ps, c.offer.id, CHANNEL, 0),
          stats |-> [st EXCEPT !.posts_sent = @ + 1],
          cycle |-> [c EXCEPT !.pc = "logged", !.sends = @ + 1]]

PublishingResends(ch, ps, st, c, outcome) ==
    IF outcome = "send_raises"
    THEN [channel |-> ch, posts |-> ps, stats |-> st,
          cycle |-> [c EXCEPT !.pc = "failed", !.sends = @ + 1]]
    ELSE IF outcome = "log_post_raises"
    THEN [channel |-> Append(Append(ch, c.text), c.text), posts |-> ps, stats |-> st,
          cycle |-> [c EXCEPT !.pc = "failed", !.sends = @ + 2, !.msg = Len(ch) + 2]]
    ELSE [channel |-> Append(ch, c.text),
          posts |-> LogPost(ps, c.offer.id, CHANNEL, Len(ch) + 1),
          stats |-> [st EXCEPT !.posts_sent = @ + 1],
          cycle |-> [c EXCEPT !.pc = "logged", !.sends = @ + 1, !.msg = Len(ch) + 1]]

PublishingCountsUnlogged(ch, ps, st, c, outcome) ==
    IF outcome = "send_raises"
    THEN [channel |-> ch, posts |-> ps, stats |-> st,
          cycle |-> [c EXCEPT !.pc = "failed", !.sends = @ + 1]]
    ELSE IF outcome = "log_post_raises"
    THEN [channel |-> Append(ch, c.text), posts |-> ps,
          stats |-> [st EXCEPT !.posts_sent = @ + 1],
          cycle |-> [c EXCEPT !.pc = "failed", !.sends = @ + 1, !.msg = Len(ch) + 1]]
    ELSE [channel |-> Append(ch, c.text),
          posts |-> LogPost(ps, c.offer.id, CHANNEL, Len(ch) + 1),
          stats |-> [st EXCEPT !.posts_sent = @ + 1],
          cycle |-> [c EXCEPT !.pc = "logged", !.sends = @ + 1, !.msg = Len(ch) + 1]]

\* post_to_channel, lines 955-968: message = await send_message(...); log_post(offer.id,
\* TELEGRAM_CHANNEL_ID, message.message_id); posts_sent += 1; except Exception: log.error
Publishing(ch, ps, st, c, outcome) ==
    IF outcome = "send_raises"
    THEN [channel |-> ch, posts |-> ps, stats |-> st,
          cycle |-> [c EXCEPT !.pc = "failed", !.sends = @ + 1]]
    ELSE IF outcome = "log_post_raises"
    THEN [channel |-> Append(ch, c.text), posts |-> ps, stats |-> st,
          cycle |-> [c EXCEPT !.pc = "failed", !.sends = @ + 1, !.msg = Len(ch) + 1]]
    ELSE [channel |-> Append(ch, c.text),
          posts |-> LogPost(ps, c.offer.id, CHANNEL, Len(ch) + 1),
          stats |-> [st EXCEPT !.posts_sent = @ + 1],
          cycle |-> [c EXCEPT !.pc = "logged", !.sends = @ + 1, !.msg = Len(ch) + 1]]

\* the send returns a message or raises; then the log
Publish(p) ==
    /\ pb[p].pc = "publishing"
    /\ \E outcome \in PublishOutcomes :
        LET r == Publishing(channel, posts, stats, pb[p], outcome)
        IN  /\ channel' = r.channel
            /\ posts' = r.posts
            /\ stats' = r.stats
            /\ pb' = [pb EXCEPT ![p] = r.cycle]
    /\ UNCHANGED <<users, referrals, now, tk, cl, tx, credits, board, cat,
                   offers, attempts>>

\* post_command: post_to_channel returned (it catches every Exception itself), so
\* the handler answers "Test post sent to channel!"
PostCommandReply(c) == "success"

\* await update.message.reply_text(...)
PostReply(p) ==
    /\ pb[p].pc \in {"logged", "failed"}
    /\ pb[p].trigger = "post"
    /\ pb[p].reply = "none"
    /\ pb' = [pb EXCEPT ![p].reply = PostCommandReply(pb[p])]
    /\ UNCHANGED <<users, referrals, now, tk, cl, tx, credits, board, cat,
                   offers, posts, channel, stats, attempts>>

\* the job run or the handler is over
Finish(p) ==
    /\ pb[p].pc \in {"logged", "failed"}
    /\ pb[p].trigger = "job" \/ pb[p].reply # "none"
    /\ pb' = [pb EXCEPT ![p] = CycleIdle]
    /\ UNCHANGED <<users, referrals, now, tk, cl, tx, credits, board, cat,
                   offers, posts, channel, stats, attempts>>

Init ==
    /\ users = << >>
    /\ referrals = << >>
    /\ now = 0
    /\ tk = [t \in Tasks |-> TaskIdle]
    /\ cl = [p \in Clients |-> ClientIdle]
    /\ tx = [p \in Clients |-> NoTx]
    /\ credits = [c \in Codes |-> [n |-> 0, sum |-> 0]]
    /\ offers = << >>
    /\ posts = << >>
    /\ channel = << >>
    /\ pb = [p \in Cycles |-> CycleIdle]
    /\ stats = [posts_sent |-> 0, offers_generated |-> 0]
    /\ attempts = 0
    /\ board = NoBoard
    /\ listing = NoListing
    /\ content = NoContent

\* the clock stands still in Spec: no handler reads last_active
Next ==
    \/ \E t \in Tasks : StartBegin(t)
    \/ \E t \in Tasks : StartNotify(t)
    \/ \E t \in Tasks : StartReply(t)
    \/ \E t \in Tasks : ReferralBegin(t)
    \/ \E t \in Tasks : ReferralReply(t)

Spec == Init /\ [][Next]_vars

StoreNext ==
    \/ \E p \in Clients : SaveUserSelect(p)
    \/ \E p \in Clients : SaveUserWrite(p)
    \/ \E p \in Clients : SaveReferralCall(p)
    \/ \E p \in Clients : SaveReferralInsert(p)
    \/ \E p \in Clients : SaveReferralUpdate(p)
    \/ \E p \in Clients : Commit(p)
    \/ \E p \in Clients : Abort(p)

StoreSpec == Init /\ [][StoreNext]_vars

PostNext ==
    \/ \E p \in Cycles : Trigger(p)
    \/ \E p \in Cycles : Select(p)
    \/ \E p \in Cycles : Render(p)
    \/ \E p \in Cycles : Publish(p)
    \/ \E p \in Cycles : PostReply(p)
    \/ \E p \in Cycles : Finish(p)

PostSpec == Init /\ [][PostNext]_vars

\* a step that is enabled is taken: the coroutine is resumed, and the transport call
\* returns or raises
PostLiveSpec ==
    /\ Init
    /\ [][PostNext]_vars
    /\ \A p \in Cycles : WF_vars(Select(p)) /\ WF_vars(Render(p)) /\ WF_vars(Publish(p))

ApiNext ==
    \/ CallSaveUser
    \/ CallSaveReferral
    \/ Tick

ApiSpec == Init /\ [][ApiNext]_vars

BoardNext ==
    \/ CallSaveNewUser
    \/ CallSaveReferral
    \/ CallGetLeaderboard

BoardSpec == Init /\ [][BoardNext]_vars

CatalogNext ==
    \/ CallSaveOffer
    \/ CallGetOffers
    \/ CallGeneratePost
    \/ Tick

CatalogSpec == Init /\ [][CatalogNext]_vars

\* ---- properties ----

\* the fields of a users row that save_user must leave alone
LedgerFieldsSame(a, b) ==
    /\ a.user_id = b.user_id
    /\ a.referral_code = b.referral_code
    /\ a.referred_by = b.referred_by
    /\ a.referral_count = b.referral_count
    /\ a.total_earnings = b.total_earnings

RowsFor(rs, code, uid) ==
    {k \in DOMAIN rs : rs[k].referrer_code = code /\ rs[k].referred_user_id = uid}

RowsOfCode(rs, code) == {k \in DOMAIN rs : rs[k].referrer_code = code}

\* C1: save_referral is atomic for every other connection: a step of the committed
\* tables shows a new Referral row for a code that has an owner exactly when it shows
\* the owner's referral_count one higher and total_earnings higher by the row's
\* reward_amount; never the row alone, never the credit alone.
C1_SaveReferralAtomic ==
    [][ /\ \A k \in DOMAIN referrals' :
            k > Len(referrals) =>
              \A i \in DOMAIN users' :
                 users'[i].referral_code = referrals'[k].referrer_code =>
                   /\ i \in DOMAIN users
                   /\ users'[i].referral_count = users[i].referral_count + 1
                   /\ users'[i].total_earnings =
                         users[i].total_earnings + referrals'[k].reward_amount
        /\ \A i \in DOMAIN users :
            (i \in DOMAIN users' /\
               (users'[i].referral_count # users[i].referral_count \/
                users'[i].total_earnings # users[i].total_earnings)) =>
              /\ Len(referrals') = Len(referrals) + 1
              /\ Last(referrals').referrer_code = users'[i].referral_code
              /\ users'[i].referral_count = users[i].referral_count + 1
              /\ users'[i].total_earnings =
                    users[i].total_earnings + Last(referrals').reward_amount
      ]_vars

\* a save_referral for an owned code has run its INSERT and not yet its UPDATE, after
\* an earlier one was committed and credited
C1_Witness ==
    \E p \in Clients :
        /\ cl[p].pc = "sr_update"
        /\ SelectByReferralCode(users, Last(tx[p].referrals).referrer_code) # 0
        /\ Len(referrals) >= 1
        /\ credits[Last(tx[p].referrals).referrer_code].n >= 1

\* C2: no lost updates: whatever the interleaving of the clients, every user's
\* referral_count is the number of save_referral calls that returned for the user's
\* code (the count starts at 0) and total_earnings is the sum of their rewards.
C2_NoLostUpdates ==
    \A i \in DOMAIN users :
        /\ users[i].referral_count = credits[users[i].referral_code].n
        /\ users[i].total_earnings = credits[users[i].referral_code].sum

\* one call for a code was credited, a second for the same code holds the transaction
\* before its commit, and a third call is waiting for the write lock
C2_Witness ==
    \E p \in Clients, q \in Clients :
        /\ p # q
        /\ cl[p].pc = "commit"
        /\ cl[q].pc = "sr_insert"
        /\ credits[Last(tx[p].referrals).referrer_code].n >= 1
        /\ SelectByReferralCode(users, Last(tx[p].referrals).referrer_code) # 0

\* C3: at most one Referral row per (referrer_code, referred_user_id), and every row
\* stands for exactly one credit of its referrer, under any interleaving of /start
\* handlers.
C3_OneReferralPerPair ==
    /\ \A j \in DOMAIN referrals, k \in DOMAIN referrals :
          (referrals[j].referrer_code = referrals[k].referrer_code /\
           referrals[j].referred_user_id = referrals[k].referred_user_id) => j = k
    /\ \A c \in Codes : credits[c].n = Cardinality(RowsOfCode(referrals, c))
    /\ \A i \in DOMAIN users :
          users[i].referral_count = Cardinality(RowsOfCode(referrals, users[i].referral_code))

\* two /start handlers of the same platform user with the same code are in flight, the
\* first has recorded the referral, the second found the user already there
C3_Witness ==
    \E t \in Tasks, s \in Tasks :
        /\ t # s
        /\ tk[t].cmd = "start" /\ tk[s].cmd = "start"
        /\ tk[t].pc = "notify"
        /\ tk[s].uid = tk[t].uid /\ tk[s].code = tk[t].code
        /\ tk[s].welcome = "returning"
        /\ Cardinality(RowsFor(referrals, tk[t].code, tk[t].uid)) = 1

\* C4: save_referral for a code that no user owns fails and leaves the store as it
\* was: no Referral row is ever stored under a code without an owner.
C4_UnresolvedReferrerRejected ==
    \A k \in DOMAIN referrals : SelectByReferralCode(users, referrals[k].referrer_code) # 0

\* C5: no Referral row credits the referred user's own code.
C5_NoSelfReferral ==
    \A k \in DOMAIN referrals :
        GetUserByReferralCode(users, referrals[k].referrer_code).user_id
            # referrals[k].referred_user_id

\* C6: /start for a platform user that already has a row is a no-op on the ledger and
\* is answered as "returning", with or without a code (valid or not): no Referral row
\* appears, no row changes its code, referred_by or counters; and a Referral row only
\* ever appears for a referred user that had no row.
C6_ReturningIsNoOp ==
    [][ /\ \A t \in Tasks :
            (tk[t].pc = "idle" /\ tk'[t].cmd = "start" /\
             GetUser(users, tk'[t].uid) # NoUser) =>
               /\ tk'[t].pc = "reply"
               /\ tk'[t].welcome = "returning"
               /\ referrals' = referrals
               /\ Len(users') = Len(users)
               /\ \A i \in DOMAIN users : LedgerFieldsSame(users'[i], users[i])
        /\ \A k \in DOMAIN referrals' :
            k > Len(referrals) => GetUser(users, referrals'[k].referred_user_id) = NoUser
      ]_vars

\* a returning user's /start carried another user's valid code and is being answered
C6_Witness ==
    \E t \in Tasks :
        /\ tk[t].cmd = "start"
        /\ tk[t].welcome = "returning"
        /\ tk[t].code # NoCode
        /\ GetUserByReferralCode(users, tk[t].code) # NoUser
        /\ GetUserByReferralCode(users, tk[t].code).user_id # tk[t].uid
        /\ RowsFor(referrals, tk[t].code, tk[t].uid) = {}

\* C7: a /start of a new platform user with a code owned by another user, when no
\* Database call raises, appends exactly one Referral (code, user, 5, confirmed) and
\* raises the owner's referral_count by 1 and total_earnings by 5.
C7_ReferralRecorded ==
    [][ \A t \in Tasks :
          (tk[t].pc = "idle" /\ tk'[t].cmd = "start" /\
           GetUser(users, tk'[t].uid) = NoUser /\
           GetUserByReferralCode(users, tk'[t].code) # NoUser) =>
             /\ referrals' = Append(referrals,
                   NewReferral(tk'[t].code, tk'[t].uid, REWARD_AMOUNT, "confirmed"))
             /\ Cardinality(RowsFor(referrals', tk'[t].code, tk'[t].uid)) = 1
             /\ \A i \in DOMAIN users :
                   IF users[i].referral_code = tk'[t].code
                   THEN /\ users'[i].referral_count = users[i].referral_count + 1
                        /\ users'[i].total_earnings = users[i].total_earnings + REWARD_AMOUNT
                   ELSE users'[i] = users[i]
      ]_vars

\* Alice then Bob-with-Alice's-code: Alice has count 1 and earnings 5
C7_Witness ==
    \E t \in Tasks :
        /\ tk[t].pc = "notify"
        /\ tk[t].referrer # tk[t].uid
        /\ GetUser(users, tk[t].referrer).referral_code = tk[t].code
        /\ GetUser(users, tk[t].referrer).referral_count = 1
        /\ GetUser(users, tk[t].referrer).total_earnings = REWARD_AMOUNT
        /\ Cardinality(RowsFor(referrals, tk[t].code, tk[t].uid)) = 1

\* C8: onboarding is all-or-nothing: a user row whose referred_by is the code of a user
\* created before it (rows are in creation order) has its Referral row.
C8_OnboardAllOrNothing ==
    \A i \in DOMAIN users :
        (\E j \in DOMAIN users :
            j < i /\ users[j].referral_code = users[i].referred_by) =>
          RowsFor(referrals, users[i].referred_by, users[i].user_id) # {}

\* C9: a /start of a new platform user with a code that resolves to no user creates
\* the user, goes on to the reply, adds no Referral row and changes no existing row.
C9_UnknownCodeIgnored ==
    [][ \A t \in Tasks :
          (tk[t].pc = "idle" /\ tk'[t].cmd = "start" /\
           GetUser(users, tk'[t].uid) = NoUser /\ tk'[t].code # NoCode /\
           GetUserByReferralCode(users', tk'[t].code) = NoUser) =>
             /\ tk'[t].pc = "reply"
             /\ referrals' = referrals
             /\ Len(users') = Len(users) + 1
             /\ Last(users').user_id = tk'[t].uid
             /\ Last(users').referral_count = 0
             /\ Last(users').total_earnings = 0
             /\ \A i \in DOMAIN users : users'[i] = users[i]
      ]_vars

\* a new user was onboarded with a code nobody owns and is being answered
C9_Witness ==
    \E t \in Tasks :
        /\ tk[t].cmd = "start"
        /\ tk[t].pc = "reply"
        /\ tk[t].welcome = "new_with_referral"
        /\ GetUserByReferralCode(users, tk[t].code) = NoUser
        /\ GetUser(users, tk[t].uid).referred_by = tk[t].code
        /\ RowsOfCode(referrals, tk[t].code) = {}
        /\ Len(users) = 2

\* C10: save_user for a user_id that has a row changes at most that row's username,
\* first_name and last_active: its referral_code, referred_by, referral_count and
\* total_earnings and every other row stay, whatever the object passed carries.
C10_UpsertFrame ==
    [][ referrals' = referrals =>
          /\ \A i \in DOMAIN users :
                /\ i \in DOMAIN users'
                /\ LedgerFieldsSame(users'[i], users[i])
          /\ \A i \in DOMAIN users, j \in DOMAIN users :
                (users'[i] # users[i] /\ users'[j] # users[j]) => i = j
      ]_vars

\* the first row was written again after the second was inserted (its last_active is
\* later), it has been credited and was referred: all of that is still there
C10_Witness ==
    /\ Len(users) = 2
    /\ users[1].last_active > users[2].last_active
    /\ users[1].referral_count = 1
    /\ users[1].referred_by # NoCode
    /\ users[1].username = "bob"

\* C11: no two users share a referral_code, no two rows share a platform user_id, and
\* no call of save_user, whatever name and code the object passed carries, changes the
\* referral_code (or the user_id) of a row that exists.
C11_CodeUniqueAndStable ==
    [][ /\ \A i \in DOMAIN users', j \in DOMAIN users' :
            (users'[i].referral_code = users'[j].referral_code \/
             users'[i].user_id = users'[j].user_id) => i = j
        /\ \A i \in DOMAIN users :
            /\ i \in DOMAIN users'
            /\ users'[i].referral_code = users[i].referral_code
            /\ users'[i].user_id = users[i].user_id
      ]_vars

\* two users with different codes are stored, and the first was saved again, by an
\* object of another code or name, after the second was created
C11_Witness ==
    /\ Len(users) = 2
    /\ users[1].referral_code # users[2].referral_code
    /\ users[1].last_active > users[2].last_active
    /\ users[1].first_name = "Al"
    /\ users[2].first_name = "Al"

Persisted(os, o) == {i \in DOMAIN os : os[i].title = o.title /\ os[i].link = o.link}

\* C12: a log_post whose offer_id references no stored Offer (None included) fails and
\* appends nothing: every PostLog row that is appended carries the id of a stored Offer.
C12_LogPostNeedsOffer ==
    [][ Len(posts') > Len(posts) =>
          \E i \in DOMAIN offers' : offers'[i].id = Last(posts').offer_id ]_vars

\* C13: the post log grows by one row exactly in the step in which a cycle's send was
\* acknowledged and its log_post succeeded, and the row carries the id of the message
\* that step put on the channel; a cycle that ends failed adds no row; no row is ever
\* changed or removed. So k successful cycles, overlapping or not, add exactly k rows.
C13_LoggedAfterAck ==
    [][ /\ Len(posts') >= Len(posts)
        /\ SubSeq(posts', 1, Len(posts)) = posts
        /\ \A p \in Cycles :
              (pb[p].pc = "publishing" /\ pb'[p].pc = "logged") =>
                 /\ Len(channel') = Len(channel) + 1
                 /\ Last(channel') = pb[p].text
                 /\ posts' = Append(posts, Last(posts'))
                 /\ Last(posts').message_id = Len(channel')
                 /\ pb'[p].msg = Len(channel')
        /\ \A p \in Cycles :
              (pb[p].pc # "failed" /\ pb'[p].pc = "failed") => posts' = posts
        /\ posts' # posts =>
              \E p \in Cycles : pb[p].pc = "publishing" /\ pb'[p].pc = "logged"
      ]_vars

\* two cycles that were in flight together have both published and logged: two rows,
\* one for each message
C13_Witness ==
    /\ Len(posts) = 2
    /\ \E p \in Cycles, q \in Cycles :
          /\ p # q
          /\ pb[p].pc = "logged" /\ pb[q].pc = "logged"
          /\ posts[1].message_id = pb[p].msg
          /\ posts[2].message_id = pb[q].msg
          /\ pb[p].msg # pb[q].msg

\* C14: a /post whose send to the channel failed is never answered with the success
\* message.
C14_FailedPostReported ==
    \A p \in Cycles :
        (pb[p].trigger = "post" /\ pb[p].pc = "failed" /\ pb[p].sends = 1 /\
         pb[p].msg = 0) => pb[p].reply # "success"

\* C15: an attempt calls the transport's send at most once, so the channel never shows
\* more messages than attempts were made; an attempt whose send succeeded and whose
\* log_post failed ends failed with its message on the channel and no PostLog row
\* for it.
C15_NoRetry ==
    /\ Len(channel) <= attempts
    /\ \A p \in Cycles :
          /\ pb[p].sends <= 1
          /\ (pb[p].pc = "failed" /\ pb[p].msg # 0) =>
                /\ pb[p].msg \in DOMAIN channel
                /\ channel[pb[p].msg] = pb[p].text
                /\ \A k \in DOMAIN posts : posts[k].message_id # pb[p].msg

\* an attempt's message is on the channel, its log_post failed, and an earlier attempt
\* was logged
C15_Witness ==
    \E p \in Cycles :
        /\ pb[p].pc = "failed"
        /\ pb[p].msg = 2
        /\ Len(channel) = 2
        /\ Len(posts) = 1

\* C16: a cycle that found the catalog empty has replenished the store before it
\* selects: from RENDERING on the store holds at least one Offer, the pool the offer
\* was chosen from was not empty, and the offer it renders and publishes is one the
\* store holds; every message on the channel is the text of a stored offer.
C16_ReplenishedBeforeSelecting ==
    /\ \A p \in Cycles :
          (pb[p].replenished /\ pb[p].pc \in {"rendering", "publishing", "logged"}) =>
             /\ Len(offers) >= 1
             /\ pb[p].pool >= 1
             /\ Persisted(offers, pb[p].offer) # {}
    /\ \A m \in DOMAIN channel : Persisted(offers, channel[m]) # {}

\* the cycle that found the catalog empty has published and logged
C16_Witness ==
    \E p \in Cycles :
        /\ pb[p].replenished
        /\ pb[p].pc = "logged"
        /\ Len(offers) = GenerateCount
        /\ channel[pb[p].msg] = GeneratePost(pb[p].offer)

\* the stages of an attempt, in order
StageOrder ==
    {<<"idle", "selecting">>, <<"selecting", "rendering">>, <<"rendering", "publishing">>,
     <<"publishing", "logged">>, <<"selecting", "failed">>, <<"rendering", "failed">>,
     <<"publishing", "failed">>, <<"logged", "idle">>, <<"failed", "idle">>}

\* C17: an attempt goes SELECTING, RENDERING, PUBLISHING and ends in LOGGED or in
\* FAILED, from which it only leaves for the next trigger; it is LOGGED only with its
\* one send acknowledged and its message on the channel; and, the transport's call
\* returning or raising, every attempt that started ends.
C17_StagesInOrder ==
    /\ [][ \A p \in Cycles :
              /\ pb'[p].pc # pb[p].pc => <<pb[p].pc, pb'[p].pc>> \in StageOrder
              /\ pb'[p].pc = "logged" =>
                    /\ pb'[p].sends = 1
                    /\ pb'[p].msg \in DOMAIN channel'
                    /\ channel'[pb'[p].msg] = pb'[p].text
          ]_vars
    /\ \A p \in Cycles :
          (pb[p].pc = "selecting") ~> (pb[p].pc \in {"logged", "failed"})

\* one attempt ended LOGGED while another ended FAILED before it had an offer
C17_Witness ==
    \E p \in Cycles, q \in Cycles :
        /\ pb[p].pc = "logged"
        /\ pb[q].pc = "failed"
        /\ pb[q].sends = 0
        /\ pb[q].offer = NoOffer

\* C19: whether the notification to the referrer is delivered or raises, the handler
\* goes on to the welcome reply of a referred user, and the step changes nothing in the
\* store: the Referral row and the referrer's credit committed before it stay.
C19_NotifyFailureSwallowed ==
    [][ \A t \in Tasks :
          (tk[t].pc = "notify" /\ tk'[t] # tk[t]) =>
             /\ tk'[t].pc = "reply"
             /\ tk'[t].cmd = "start"
             /\ tk'[t].notified \in {"sent", "failed"}
             /\ tk'[t].welcome = "new_with_referral"
             /\ users' = users
             /\ referrals' = referrals
             /\ Cardinality(RowsFor(referrals', tk[t].code, tk[t].uid)) = 1
             /\ GetUserByReferralCode(users', tk[t].code).referral_count
                   >= tk[t].refcount + 1
             /\ GetUser(users', tk[t].uid).referred_by = tk[t].code
      ]_vars

\* the notification raised, and the new user is about to get the welcome; the
\* referrer, another user, holds the credit
C19_Witness ==
    \E t \in Tasks :
        /\ tk[t].pc = "reply"
        /\ tk[t].notified = "failed"
        /\ tk[t].welcome = "new_with_referral"
        /\ tk[t].referrer # tk[t].uid
        /\ GetUser(users, tk[t].referrer).referral_count = 1
        /\ GetUser(users, tk[t].referrer).total_earnings = REWARD_AMOUNT
        /\ RowsFor(referrals, tk[t].code, tk[t].uid) # {}

\* C20: /referral is a get-or-create: answered for a platform user without a row, it
\* has created exactly one row for the user, with no referred_by and counters 0;
\* answered for a user that has a row, it has changed nothing; it never adds a
\* Referral row, and no step that adds no Referral row changes a row's code,
\* referred_by or counters.
C20_DashboardGetOrCreate ==
    [][ /\ \A t \in Tasks :
              (tk[t].pc = "idle" /\ tk'[t].cmd = "referral") =>
                 /\ referrals' = referrals
                 /\ \A i \in DOMAIN users : users'[i] = users[i]
                 /\ IF GetUser(users, tk'[t].uid) = NoUser
                    THEN /\ Len(users') = Len(users) + 1
                         /\ Last(users').user_id = tk'[t].uid
                         /\ Last(users').referred_by = NoCode
                         /\ Last(users').referral_count = 0
                         /\ Last(users').total_earnings = 0
                    ELSE users' = users
        /\ referrals' = referrals =>
              \A i \in DOMAIN users :
                 i \in DOMAIN users' /\ LedgerFieldsSame(users'[i], users[i])
      ]_vars

\* two /referral calls of one platform user, who had no row, are being answered: one
\* row for the user
C20_Witness ==
    \E t \in Tasks, s \in Tasks :
        /\ t # s
        /\ tk[t].cmd = "referral" /\ tk[s].cmd = "referral"
        /\ tk[t].uid = tk[s].uid
        /\ users = << GetUser(users, tk[t].uid) >>
        /\ users[1].referred_by = NoCode
        /\ referrals = << >>

\* C21: get_offers(limit, category) returns at most limit offers, each of them a row of
\* the offers table and none twice; when a category is given every returned offer has
\* it; an offer never stands before one created later.
C21_GetOffers ==
    listing.called =>
        LET rows == listing.rows
        IN  /\ Len(rows) <= listing.limit
            /\ \A k \in DOMAIN rows :
                  /\ rows[k].id \in DOMAIN offers
                  /\ rows[k] = RowToOffer(offers[rows[k].id])
                  /\ listing.category \in Categories =>
                        rows[k].category = listing.category
            /\ \A j, k \in DOMAIN rows :
                  j < k => /\ rows[j].id # rows[k].id
                           /\ offers[rows[j].id].created_at >= offers[rows[k].id].created_at

\* a list cut to its limit: the newest offer of the category, while the store holds an
\* older one of that category and one of another
C21_Witness ==
    /\ listing.called
    /\ listing.category = "gadgets"
    /\ listing.limit = 1
    /\ Len(listing.rows) = 1
    /\ \E i \in DOMAIN offers :
          /\ offers[i].category = "gadgets"
          /\ offers[i].created_at < offers[listing.rows[1].id].created_at
    /\ \E i \in DOMAIN offers : offers[i].category # "gadgets"

\* what the data model asks of an Offer's generated fields
GeneratedFieldsOk(o) ==
    /\ o.commission >= 0
    /\ o.gravity \in 0..100
    /\ o.category \in Categories

\* C22: every offer the replenishment persisted has a commission of at least 0, a
\* gravity within 0..100 and a category of the enumeration (as every template of the
\* generator has); a cycle that reads the replenished store gets between 1 and its
\* limit of such offers.
C22_ReplenishedOffersInRange ==
    /\ \A t \in DOMAIN OfferTemplates :
          /\ OfferTemplates[t].commission_range[1] >= 0
          /\ OfferTemplates[t].commission_range[1] <= OfferTemplates[t].commission_range[2]
          /\ OfferTemplates[t].gravity_range[1] >= 0
          /\ OfferTemplates[t].gravity_range[1] <= OfferTemplates[t].gravity_range[2]
          /\ OfferTemplates[t].gravity_range[2] <= 100
          /\ OfferTemplates[t].category \in Categories
    /\ \A i \in DOMAIN offers : GeneratedFieldsOk(offers[i])
    /\ \A p \in Cycles :
          (~pb[p].replenished /\ pb[p].pc \in {"rendering", "publishing", "logged"}) =>
             /\ pb[p].pool \in 1..PoolSize
             /\ GeneratedFieldsOk(pb[p].offer)
             /\ pb[p].offer.id \in DOMAIN offers
             /\ pb[p].offer = RowToOffer(offers[pb[p].offer.id])

\* a cycle has read a full pool from the store an earlier cycle replenished, with
\* commissions from both ends of the template's range in it
C22_Witness ==
    \E p \in Cycles :
        /\ ~pb[p].replenished
        /\ pb[p].pc = "rendering"
        /\ pb[p].pool = PoolSize
        /\ Len(offers) = GenerateCount
        /\ \E i, j \in DOMAIN offers :
              /\ offers[i].commission = OfferTemplates[offers[i].title].commission_range[1]
              /\ offers[j].commission = OfferTemplates[offers[j].title].commission_range[2]
              /\ offers[i].commission < offers[j].commission

\* a valid Offer: the commission and the category are set, the gravity may be absent
ValidOffer(o) ==
    /\ o.commission # NoCommission /\ o.commission >= 0
    /\ o.category \in Categories
    /\ o.gravity = NoGravity \/ o.gravity \in 0..100

\* C23: generate_post(offer) of a valid Offer, its gravity absent or not, returns a text
\* with the offer's title and affiliate link in it and does not raise.
C23_GeneratePostCompletes ==
    (content.called /\ ValidOffer(content.offer)) =>
        /\ content.text.error = "none"
        /\ content.text.title = content.offer.title
        /\ content.text.link = content.offer.link
        /\ content.text # NoText

\* the text of a stored offer without gravity: no popularity line
C23_Witness ==
    /\ content.called
    /\ ValidOffer(content.offer)
    /\ content.offer.id \in DOMAIN offers
    /\ content.offer.gravity = NoGravity
    /\ content.text.error = "none"
    /\ content.text.popularity = NoGravity
    /\ content.text.per_subscriber

\* the sum of reward_amount over the rows S of the referrals table
RECURSIVE SumRewards(_, _)
SumRewards(rs, S) ==
    IF S = {} THEN 0
    ELSE LET k == CHOOSE k \in S : TRUE
         IN  rs[k].reward_amount + SumRewards(rs, S \ {k})

\* C24: in every committed state each user's referral_count is the number of Referral
\* rows that carry the user's referral code, and the user's total_earnings is the sum of
\* the reward_amount of those rows.
C24_LedgerConsistent ==
    \A i \in DOMAIN users :
        /\ users[i].referral_count =
              Cardinality(RowsOfCode(referrals, users[i].referral_code))
        /\ users[i].total_earnings =
              SumRewards(referrals, RowsOfCode(referrals, users[i].referral_code))

\* C25: every row of the post log carries the id of an Offer the store holds, whatever
\* cycles have run, the first one on an empty catalog included.
C25_PostLogReferencesOffers ==
    \A k \in DOMAIN posts : \E i \in DOMAIN offers : offers[i].id = posts[k].offer_id

\* C26: a user's referred_by is absent or is the referral code of another user the
\* ledger holds, with a Referral row (referred_by, the user's id) in the ledger.
C26_ReferredByResolved ==
    \A i \in DOMAIN users :
        users[i].referred_by # NoCode =>
            /\ \E j \in DOMAIN users :
                  /\ users[j].referral_code = users[i].referred_by
                  /\ users[j].user_id # users[i].user_id
            /\ RowsFor(referrals, users[i].referred_by, users[i].user_id) # {}

\* C27: /start answers with the 'new and referred' welcome exactly when the user was new
\* and the call recorded a Referral row for a referrer it resolved; a new user whose
\* code resolved to nobody gets the plain 'new' welcome.
C27_ReferredWelcomeIffRecorded ==
    \A t \in Tasks :
        (tk[t].cmd = "start" /\ tk[t].pc = "reply") =>
            ( tk[t].welcome = "new_with_referral"
              <=> /\ tk[t].notified # "none"
                  /\ RowsFor(referrals, tk[t].code, tk[t].uid) # {} )

\* C28: whatever Database methods are called, every user row has a referral_count and a
\* total_earnings of at least 0, and neither is lower after a call than before it.
C28_CountersNeverDecrease ==
    [][ \A i \in DOMAIN users' :
            /\ users'[i].referral_count >= 0
            /\ users'[i].total_earnings >= 0
            /\ i \in DOMAIN users =>
                  /\ users'[i].user_id = users[i].user_id
                  /\ users'[i].referral_count >= users[i].referral_count
                  /\ users'[i].total_earnings >= users[i].total_earnings
      ]_vars

\* a user credited twice, with both rewards, and saved again at a later time
C28_Witness ==
    \E i \in DOMAIN users :
        /\ users[i].referral_count = 2
        /\ users[i].total_earnings = 2 + REWARD_AMOUNT
        /\ users[i].last_active = MaxClock
        /\ Cardinality(RowsOfCode(referrals, users[i].referral_code)) = 2

\* C29: posts_sent is the number of rows this process's cycles have appended to the post
\* log: a cycle that published and logged adds one to both, and nothing else (a cycle
\* that failed, before or after its send) changes the counter.
C29_PostsSentCountsLoggedCycles ==
    [][ /\ stats'.posts_sent = Len(posts')
        /\ \A p \in Cycles :
              (pb[p].pc = "publishing" /\ pb'[p].pc = "logged") =>
                 /\ stats'.posts_sent = stats.posts_sent + 1
                 /\ Len(posts') = Len(posts) + 1
        /\ stats'.posts_sent # stats.posts_sent =>
              \E p \in Cycles : pb[p].pc = "publishing" /\ pb'[p].pc = "logged"
        /\ \A p \in Cycles :
              (pb[p].pc # "failed" /\ pb'[p].pc = "failed") =>
                 stats'.posts_sent = stats.posts_sent
      ]_vars

\* one cycle has published and logged; another sent its message and failed at the log
C29_Witness ==
    /\ stats.posts_sent = 1
    /\ Len(posts) = 1
    /\ Len(channel) = 2
    /\ \E p \in Cycles : pb[p].pc = "failed" /\ pb[p].msg # 0

\* C30: the referrer's notification is sent only after the onboarding's Referral row and
\* credit are committed, and the number of total referrals it reports is the referrer's
\* stored referral_count right after that credit, however the onboardings that credit
\* the same referrer interleave.
C30_NotificationReportsStoredCount ==
    [][ \A t \in Tasks :
          /\ (tk[t].pc = "idle" /\ tk'[t].pc = "notify") =>
                /\ Len(referrals') = Len(referrals) + 1
                /\ Last(referrals').referrer_code = tk'[t].code
                /\ Last(referrals').referred_user_id = tk'[t].uid
                /\ GetUser(users', tk'[t].referrer).referral_code = tk'[t].code
                /\ GetUser(users', tk'[t].referrer).referral_count =
                      GetUser(users, tk'[t].referrer).referral_count + 1
                /\ tk'[t].reported = GetUser(users', tk'[t].referrer).referral_count
          /\ (tk[t].pc = "notify" /\ tk'[t].notified = "sent") =>
                /\ RowsFor(referrals, tk[t].code, tk[t].uid) # {}
                /\ GetUser(users, tk[t].referrer).referral_count >= tk[t].reported
                /\ tk'[t].reported = tk[t].reported
      ]_vars

\* two onboardings that credited the same referrer are both at their notification: one
\* reports 1, the other 2, and the referrer's stored count is 2
C30_Witness ==
    \E s, t \in Tasks :
        /\ tk[s].pc = "notify" /\ tk[t].pc = "notify"
        /\ tk[s].referrer = tk[t].referrer
        /\ tk[s].reported = 1
        /\ tk[t].reported = 2
        /\ GetUser(users, tk[t].referrer).referral_count = 2
====
